---- MODULE Spec2Model ----
(***************************************************************************)
(* Model of app.py (AI PDF Summarizer Pro): the chunker chunk_text, the    *)
(* map phase summarize_text, the reduce phase refine_summary, and the      *)
(* Streamlit script with its session state.                                *)
(*                                                                         *)
(* A Python string is modelled as a sequence of one-character strings; a   *)
(* prompt or a summary is a sequence of tokens.                            *)
(***************************************************************************)
EXTENDS Integers, Sequences, FiniteSets, TLC

\* ------------------------------------------------------------------ bounds
MaxLen == 4
MaxSize == 5
MaxOverlap == 5

\* ------------------------------------------------------------ pure helpers
Min(a, b) == IF a < b THEN a ELSE b

\* text[s:e] for 0 <= s <= e <= len(text)
Slice(t, s, e) == SubSeq(t, s + 1, e)

RECURSIVE SeqsUpTo(_, _)
SeqsUpTo(A, n) ==
    IF n = 0 THEN {<<>>}
    ELSE LET shorter == SeqsUpTo(A, n - 1)
         IN  shorter \cup {Append(s, a) : s \in shorter, a \in A}

Alphabet == {"a", "b"}
Scenario == <<"A", "B", "C", "D", "E", "F", "G", "H", "I", "J">>
Texts == SeqsUpTo(Alphabet, MaxLen) \cup {Scenario}

\* --------------------------------------------------------------- chunk_text
\* line 58: end = min(start + chunk_size, len(text))
ChunkEnd(st, size, n) == Min(st + size, n)

\* a sign slip in the step: the cursor moves past the end of the chunk
NextStartSkips(st, end, ov) == IF end + ov > st THEN end + ov ELSE end

\* the guard compares with >= : the cursor may stay where it is
NextStartStalls(st, end, ov) == IF end - ov >= st THEN end - ov ELSE end

\* line 60: start = end - overlap if end - overlap > start else end
NextStart(st, end, ov) == IF end - ov > st THEN end - ov ELSE end

RECURSIVE ChunkFrom(_, _, _, _, _)
ChunkFrom(t, size, ov, st, acc) ==
    IF st < Len(t)
    THEN LET end == ChunkEnd(st, size, Len(t))
         IN  ChunkFrom(t, size, ov, NextStart(st, end, ov),
                       Append(acc, Slice(t, st, end)))
    ELSE acc

chunk_text(t, size, ov) == ChunkFrom(t, size, ov, 0, <<>>)


\* ------------------------------------------------------- read_pdf_content
MaxPages == 2

\* what page.extract_text() does on one page: raise, or return a text
\* (<<>> stands for None or "")
PageOutcomes ==
    {[raises |-> TRUE, text |-> <<>>]}
    \cup {[raises |-> FALSE, text |-> t] : t \in {<<>>, <<"a", "b">>}}

\* a PDF file: whether pdfplumber.open succeeds, and what each page does
Docs ==
    {[opens |-> FALSE, pages |-> <<>>]}
    \cup {[opens |-> TRUE, pages |-> ps] : ps \in SeqsUpTo(PageOutcomes, MaxPages)}

RECURSIVE ReadPages(_, _, _)
ReadPages(pages, k, acc) ==
    IF k > Len(pages) THEN [text |-> acc, error |-> FALSE]
    ELSE IF pages[k].raises THEN [text |-> acc, error |-> TRUE]
    ELSE ReadPages(pages, k + 1,
                   IF pages[k].text # <<>>
                   THEN acc \o pages[k].text \o <<"\n">>
                   ELSE acc)

\* lines 42-52: the text read so far is returned also when the library raises
read_pdf_content(doc) ==
    IF doc.opens THEN ReadPages(doc.pages, 1, <<>>)
    ELSE [text |-> <<>>, error |-> TRUE]

Whitespace == {" ", "\n"}

\* truth value of pdf_text.strip() (line 128)
StripNonEmpty(t) == \E k \in 1..Len(t) : t[k] \notin Whitespace

\* ------------------------------------------------------------ model client
\* the text a successful generate_content call carries
ModelTexts == {<<"S1">>}

\* what one generate_content call does: return a response with a text
\* field, return a response without one, or raise
Responses ==
    {[kind |-> "ok", text |-> t] : t \in ModelTexts}
    \cup {[kind |-> "notext", text |-> <<>>], [kind |-> "raise", text |-> <<>>]}

\* a response whose missing text field reads as an empty text
GetattrNoDefault(response, default) == response.text

\* getattr(response, "text", default) (lines 76, 91, 190)
GetattrText(response, default) ==
    IF response.kind = "ok" THEN response.text ELSE default

\* one of the options of each selectbox (lines 109-110)
Styles == {"Concise"}
Languages == {"English"}

\* lines 71-74
SummarizePrompt(chunk, style, language) ==
    <<"Summarize the following text in ", language, " with ", style, " style:">>
    \o chunk

\* the sentinel numbered from 0, the loop index as it is
ErrorSentinelFromZero(i) == <<"[Error in chunk ", ToString(i), "]">>

\* line 79: f"[Error in chunk {i+1}]", i the 0-based loop index
ErrorSentinel(i) == <<"[Error in chunk ", ToString(i + 1), "]">>

\* one iteration of the loop of summarize_text (lines 68-79): the value
\* appended for the chunk of 0-based index i
SummarizeOne(i, response) ==
    IF response.kind = "raise"
    THEN ErrorSentinel(i)
    ELSE GetattrText(response, <<"[No summary]">>)

\* the loop ends one chunk early
MapDoneEarly(sums, cks) == Len(sums) >= Len(cks) - 1

\* line 68: the for loop is over when every chunk has been visited
MapDone(sums, cks) == Len(sums) = Len(cks)

RECURSIVE Join(_, _)
\* sep.join(parts)
Join(sep, parts) ==
    IF parts = <<>> THEN <<>>
    ELSE IF Len(parts) = 1 THEN parts[1]
    ELSE parts[1] \o sep \o Join(sep, Tail(parts))

\* line 89
RefinePrompt(sums, language) ==
    <<"Combine and refine these summaries into one clear summary in ", language, ":\n\n">>
    \o Join(<<"\n\n">>, sums)

\* refine_summary without its try/except: the exception leaves the function
RefineNoTry(response) ==
    IF response.kind = "raise"
    THEN [value |-> <<>>, raised |-> TRUE, reported |-> FALSE]
    ELSE [value |-> GetattrText(response, <<"[No final summary]">>),
          raised |-> FALSE, reported |-> FALSE]

\* lines 87-94, given what the generate_content call did: the returned
\* value, whether an exception leaves the function, whether st.error ran
refine_summary(response) ==
    IF response.kind = "raise"
    THEN [value |-> <<"[Refinement failed]">>, raised |-> FALSE, reported |-> TRUE]
    ELSE [value |-> GetattrText(response, <<"[No final summary]">>),
          raised |-> FALSE, reported |-> FALSE]

\* sliders of lines 111-112, scaled down with the text lengths: the
\* largest overlap stays below the smallest chunk size
MinChunkSize == 4
MaxChunkSize == 5
MaxSliderOverlap == 1
ChunkSizes == MinChunkSize..MaxChunkSize
Overlaps == 0..MaxSliderOverlap

\* lines 139-140 skipped when the refinement failed
StoreUnlessFailed(ss, sums, final) ==
    IF final = <<"[Refinement failed]">> THEN ss
    ELSE [k \in DOMAIN ss \cup {"summaries", "final_summary"} |->
            IF k = "summaries" THEN sums ELSE final]

\* lines 139-140: both keys of st.session_state are assigned
StoreResults(ss, sums, final) ==
    [k \in DOMAIN ss \cup {"summaries", "final_summary"} |->
        IF k = "summaries" THEN sums ELSE final]

\* line 143
HasResults(ss) == "summaries" \in DOMAIN ss /\ "final_summary" \in DOMAIN ss

Questions == {<<"q">>}

\* line 185
AnswerPrompt(context, question) ==
    <<"Answer the question based only on this text:\n\n">> \o context
    \o <<"\n\nQuestion: ">> \o question

VARIABLES
    text, chunk_size, overlap,   \* chunk_text's arguments
    start, chunks,               \* chunk_text's locals
    spans,                       \* history: the (start, end) of each emitted chunk
    pc,                          \* "loop" while in the while loop, "done" after return
    model,                       \* TRUE: a GenerativeModel; FALSE: None (lines 30-36)
    uploaded_file,               \* <<>> (None) or <<doc>> (line 120)
    session_state,               \* st.session_state: a function on its keys
    summary_style, language,     \* the sidebar's values in the current run
    text_chunks, summaries,      \* locals of the 'Generate Summary' handler
    run,                         \* "idle", or "summarizing" inside summarize_text
    calls,                       \* history: the generate_content calls of the last run
    st_errors,                   \* the st.error messages of the last run
    displayed,                   \* the last run rendered the summaries (lines 143-178)
    uncaught,                    \* an exception left the script in the last run
    summary_source               \* history: the pdf_text session_state was made from

chunkVars == <<text, chunk_size, overlap, start, chunks, spans, pc>>

appVars == <<model, uploaded_file, session_state, summary_style, language,
             text_chunks, summaries, run, calls, st_errors, displayed,
             uncaught, summary_source>>

vars == <<chunkVars, appVars>>

AppIdle ==
    /\ uploaded_file = <<>>
    /\ session_state = <<>>
    /\ summary_style = "Concise"
    /\ language = "English"
    /\ text_chunks = <<>>
    /\ summaries = <<>>
    /\ run = "idle"
    /\ calls = <<>>
    /\ st_errors = {}
    /\ displayed = FALSE
    /\ uncaught = FALSE
    /\ summary_source = <<>>

\* ---------------------------------------------- chunk_text, step by step
InitChunk ==
    /\ text \in Texts
    /\ chunk_size \in 1..MaxSize
    /\ overlap \in 0..MaxOverlap
    /\ start = 0
    /\ chunks = <<>>
    /\ spans = <<>>
    /\ pc = "loop"
    /\ model = TRUE
    /\ AppIdle

\* one iteration of the while loop (lines 57-60)
ChunkLoop ==
    /\ pc = "loop"
    /\ start < Len(text)
    /\ LET end == ChunkEnd(start, chunk_size, Len(text))
       IN  /\ chunks' = Append(chunks, Slice(text, start, end))
           /\ spans' = Append(spans, <<start, end>>)
           /\ start' = NextStart(start, end, overlap)
    /\ UNCHANGED <<text, chunk_size, overlap, pc>>
    /\ UNCHANGED appVars

\* the loop condition fails and the function returns (lines 57, 61)
ChunkReturn ==
    /\ pc = "loop"
    /\ ~(start < Len(text))
    /\ pc' = "done"
    /\ UNCHANGED <<text, chunk_size, overlap, start, chunks, spans>>
    /\ UNCHANGED appVars

NextChunk == ChunkLoop \/ ChunkReturn

SpecChunk == InitChunk /\ [][NextChunk]_vars

\* ------------------------------------------------------ the Streamlit script
Init ==
    /\ text = <<>>
    /\ chunk_size = 1
    /\ overlap = 0
    /\ start = 0
    /\ chunks = <<>>
    /\ spans = <<>>
    /\ pc = "done"
    /\ model \in BOOLEAN
    /\ AppIdle

\* line 122
Extracts(file) == file # <<>> /\ model

\* line 126: pdf_text and whether read_pdf_content called st.error
Extraction(file) == read_pdf_content(file[1])

PdfErrors(file) ==
    IF Extracts(file) /\ Extraction(file).error THEN {<<"pdf", 0>>} ELSE {}

\* lines 122-128: the 'Generate Summary' button and the results are rendered
InTextBlock(file) == Extracts(file) /\ StripNonEmpty(Extraction(file).text)

\* a run of the script in which no button is pressed
PlainRun(file) ==
    /\ uploaded_file' = file
    /\ text_chunks' = <<>>
    /\ summaries' = <<>>
    /\ calls' = <<>>
    /\ st_errors' = PdfErrors(file)
    /\ displayed' = (InTextBlock(file) /\ HasResults(session_state))
    /\ uncaught' = FALSE
    /\ UNCHANGED <<model, session_state, summary_style, language, run, summary_source>>
    /\ UNCHANGED chunkVars

\* the user uploads a file, or replaces the uploaded one (line 120)
Upload ==
    /\ run = "idle"
    /\ \E doc \in Docs : PlainRun(<<doc>>)

\* the user removes the uploaded file
RemoveFile ==
    /\ run = "idle"
    /\ uploaded_file # <<>>
    /\ PlainRun(<<>>)

\* 'Generate Summary' is pressed: lines 134-136 up to the loop of summarize_text
ClickGenerate ==
    /\ run = "idle"
    /\ InTextBlock(uploaded_file)
    /\ \E cs \in ChunkSizes, ov \in Overlaps :
          text_chunks' = chunk_text(Extraction(uploaded_file).text, cs, ov)
    /\ summary_style' \in Styles
    /\ language' \in Languages
    /\ summaries' = <<>>
    /\ calls' = <<>>
    /\ st_errors' = PdfErrors(uploaded_file)
    /\ displayed' = FALSE
    /\ uncaught' = FALSE
    /\ run' = "summarizing"
    /\ UNCHANGED <<model, uploaded_file, session_state, summary_source>>
    /\ UNCHANGED chunkVars

\* one iteration of the loop of summarize_text (lines 68-81)
SummarizeChunk ==
    /\ run = "summarizing"
    /\ ~MapDone(summaries, text_chunks)
    /\ LET i == Len(summaries)
       IN  \E response \in Responses :
              /\ summaries' = Append(summaries, SummarizeOne(i, response))
              /\ calls' = Append(calls,
                     [kind |-> "summarize", index |-> i + 1,
                      prompt |-> SummarizePrompt(text_chunks[i + 1],
                                                 summary_style, language),
                      response |-> response])
              /\ st_errors' = IF response.kind = "raise"
                              THEN st_errors \cup {<<"chunk", i + 1>>}
                              ELSE st_errors
    /\ UNCHANGED <<model, uploaded_file, session_state, summary_style, language,
                   text_chunks, run, displayed, uncaught, summary_source>>
    /\ UNCHANGED chunkVars

\* summarize_text returns; refine_summary, the two stores and the display
\* (lines 85, 137-178)
RefineAndStore ==
    /\ run = "summarizing"
    /\ MapDone(summaries, text_chunks)
    /\ \E response \in Responses :
          LET r == refine_summary(response)
          IN  /\ calls' = Append(calls,
                     [kind |-> "refine", index |-> 0,
                      prompt |-> RefinePrompt(summaries, language),
                      response |-> response])
              /\ st_errors' = IF r.reported
                              THEN st_errors \cup {<<"refine", 0>>}
                              ELSE st_errors
              /\ uncaught' = r.raised
              /\ session_state' =
                     IF r.raised THEN session_state
                     ELSE StoreResults(session_state, summaries, r.value)
              /\ summary_source' =
                     IF r.raised THEN summary_source
                     ELSE Extraction(uploaded_file).text
              /\ displayed' = (~r.raised /\ HasResults(session_state'))
    /\ run' = "idle"
    /\ UNCHANGED <<model, uploaded_file, summary_style, language, text_chunks, summaries>>
    /\ UNCHANGED chunkVars

\* 'Get Answer' is pressed: the script runs again, then lines 183-196
ClickGetAnswer ==
    /\ run = "idle"
    /\ \E question \in Questions, response \in Responses :
          IF Extracts(uploaded_file)
          THEN /\ calls' = <<[kind |-> "answer", index |-> 0,
                              prompt |-> AnswerPrompt(Extraction(uploaded_file).text,
                                                      question),
                              response |-> response]>>
               /\ st_errors' = PdfErrors(uploaded_file) \cup
                      (IF response.kind = "raise" THEN {<<"answer", 0>>} ELSE {})
          ELSE \* pdf_text is unbound: the NameError of line 185 is caught at 195
               /\ calls' = <<>>
               /\ st_errors' = {<<"answer", 0>>}
    /\ text_chunks' = <<>>
    /\ summaries' = <<>>
    /\ displayed' = (InTextBlock(uploaded_file) /\ HasResults(session_state))
    /\ uncaught' = FALSE
    /\ UNCHANGED <<model, uploaded_file, session_state, summary_style, language,
                   run, summary_source>>
    /\ UNCHANGED chunkVars

Next ==
    \/ Upload
    \/ RemoveFile
    \/ ClickGenerate
    \/ SummarizeChunk
    \/ RefineAndStore
    \/ ClickGetAnswer

Spec == Init /\ [][Next]_vars

\* ================================================================== claims
CeilDiv(a, b) == (a + b - 1) \div b

Last(s) == s[Len(s)]

\* the token tok occurs in the string s
Contains(s, tok) == \E k \in 1..Len(s) : s[k] = tok

\* the chunks, each without the prefix it shares with its predecessor
RECURSIVE Rebuild(_, _, _)
Rebuild(cks, sps, i) ==
    IF i > Len(cks) THEN <<>>
    ELSE LET drop == IF i = 1 THEN 0 ELSE sps[i - 1][2] - sps[i][1]
         IN  SubSeq(cks[i], drop + 1, Len(cks[i])) \o Rebuild(cks, sps, i + 1)

\* C1: the chunks of chunk_text are the slices text[s_i:e_i], with s_1 = 0,
\* strictly increasing starts, s_(i+1) <= e_i, and on return the last end
\* equal to len(text): every position of the text lies in a chunk, and the
\* chunks with the shared prefixes dropped concatenate to the text.
C1_ChunksCoverText ==
    /\ Len(chunks) = Len(spans)
    /\ \A i \in 1..Len(spans) :
          /\ 0 <= spans[i][1] /\ spans[i][1] < spans[i][2]
          /\ spans[i][2] <= Len(text)
          /\ chunks[i] = Slice(text, spans[i][1], spans[i][2])
    /\ (spans # <<>> => spans[1][1] = 0)
    /\ \A i \in 1..(Len(spans) - 1) :
          /\ spans[i][1] < spans[i + 1][1]
          /\ spans[i + 1][1] <= spans[i][2]
    /\ (pc = "done" =>
          /\ (text # <<>> => spans # <<>> /\ Last(spans)[2] = Len(text))
          /\ \A p \in 0..(Len(text) - 1) :
                \E i \in 1..Len(spans) : spans[i][1] <= p /\ p < spans[i][2]
          /\ Rebuild(chunks, spans, 1) = text)

C1_Witness ==
    /\ pc = "done"
    /\ overlap > 0 /\ overlap < chunk_size
    /\ Len(chunks) >= 3
    /\ \E i \in 1..(Len(spans) - 1) : spans[i + 1][1] < spans[i][2]

\* C2: with overlap >= chunk_size the loop of chunk_text runs at most
\* ceil(len(text)/chunk_size) times, each chunk starts where the previous
\* one ended, and on return there are exactly ceil(len(text)/chunk_size)
\* chunks; "ABCDEFGHIJ" with size 5 and overlap 5 gives ABCDE, FGHIJ; the
\* empty text gives no chunk.
C2_NoOverlapWhenOverlapGeSize ==
    /\ (overlap >= chunk_size =>
          /\ Len(chunks) <= CeilDiv(Len(text), chunk_size)
          /\ \A i \in 1..(Len(spans) - 1) : spans[i + 1][1] = spans[i][2]
          /\ (pc = "done" => Len(chunks) = CeilDiv(Len(text), chunk_size)))
    /\ (pc = "done" /\ text = Scenario /\ chunk_size = 5 /\ overlap = 5 =>
          chunks = <<SubSeq(Scenario, 1, 5), SubSeq(Scenario, 6, 10)>>)
    /\ (pc = "done" /\ text = <<>> => chunks = <<>>)

C2_Witness ==
    /\ pc = "done"
    /\ text = Scenario /\ chunk_size = 5 /\ overlap = 5
    /\ Len(chunks) = 2

\* C3: chunk_text("ABCDEFGHIJ", 4, 1) returns exactly ABCD, DEFG, GHIJ, and
\* no chunk is emitted after a chunk that ends at len(text).
C3_ScenarioThreeChunks ==
    /\ (pc = "done" /\ text = Scenario /\ chunk_size = 4 /\ overlap = 1 =>
          chunks = <<SubSeq(Scenario, 1, 4), SubSeq(Scenario, 4, 7),
                     SubSeq(Scenario, 7, 10)>>)
    /\ \A i \in 1..(Len(spans) - 1) : spans[i][2] < Len(text)

\* the handler of 'Generate Summary' has run to its end
GenerateDone == run = "idle" /\ text_chunks # <<>>

\* C4: summarize_text returns one summary per chunk, in chunk order: the
\* text of the k-th call where that call returned a text, and
\* "[Error in chunk k]", k counted from 1, where it raised; a failure
\* changes no other position.
C4_OneSummaryPerChunk ==
    /\ Len(summaries) <= Len(text_chunks)
    /\ (run = "summarizing" \/ GenerateDone => Len(calls) >= Len(summaries))
    /\ \A k \in 1..Len(summaries) :
          /\ calls[k].kind = "summarize"
          /\ calls[k].prompt = SummarizePrompt(text_chunks[k], summary_style, language)
          /\ (calls[k].response.kind = "ok" =>
                summaries[k] = calls[k].response.text)
          /\ (calls[k].response.kind = "raise" =>
                summaries[k] = <<"[Error in chunk ", ToString(k), "]">>)
    /\ (GenerateDone =>
          /\ Len(summaries) = Len(text_chunks)
          /\ session_state["summaries"] = summaries)

C4_Witness ==
    /\ GenerateDone
    /\ Len(text_chunks) = 3
    /\ calls[1].response.kind = "ok"
    /\ calls[2].response.kind = "raise"
    /\ calls[3].response.kind = "ok"
    /\ session_state["summaries"] = <<<<"S1">>, <<"[Error in chunk ", "2", "]">>, <<"S1">>>>

\* C5 as stated: whatever way the call for chunk k fails (it raises, or its
\* response has no text field), the value stored for chunk k contains k.
C5_EveryFailureNamesChunk ==
    \A k \in 1..Len(summaries) :
        calls[k].response.kind \in {"raise", "notext"} =>
            Contains(summaries[k], ToString(k))

\* C5 amended: a call that raises stores "[Error in chunk k]", which
\* contains k; a response without a text field stores "[No summary]", the
\* same value for every chunk.
C5_RaiseNamesChunkNoTextDoesNot ==
    \A k \in 1..Len(summaries) :
        /\ (calls[k].response.kind = "raise" =>
              /\ summaries[k] = <<"[Error in chunk ", ToString(k), "]">>
              /\ Contains(summaries[k], ToString(k)))
        /\ (calls[k].response.kind = "notext" =>
              summaries[k] = <<"[No summary]">>)

C5_Witness ==
    /\ GenerateDone
    /\ Len(summaries) >= 2
    /\ calls[1].response.kind = "raise"
    /\ calls[2].response.kind = "notext"
    /\ session_state["summaries"][2] = <<"[No summary]">>

\* C6: no exception leaves refine_summary: the handler always issues the
\* refine call on the joined summaries, failure sentinels included, stores
\* both results and displays them; when the call raises the final summary is
\* "[Refinement failed]".
C6_RefineNeverRaises ==
    /\ ~uncaught
    /\ (GenerateDone =>
          /\ Len(calls) = Len(summaries) + 1
          /\ Last(calls).kind = "refine"
          /\ Last(calls).prompt = RefinePrompt(summaries, language)
          /\ HasResults(session_state)
          /\ displayed
          /\ (Last(calls).response.kind = "raise" =>
                /\ session_state["final_summary"] = <<"[Refinement failed]">>
                /\ <<"refine", 0>> \in st_errors)
          /\ (Last(calls).response.kind = "ok" =>
                session_state["final_summary"] = Last(calls).response.text))

C6_Witness ==
    /\ GenerateDone
    /\ Len(summaries) >= 2
    /\ \A k \in 1..Len(summaries) :
          summaries[k] = <<"[Error in chunk ", ToString(k), "]">>
    /\ Last(calls).response.kind = "raise"
    /\ session_state["final_summary"] = <<"[Refinement failed]">>
    /\ displayed

\* the value summarize_text stores for a call, read off the call history
StoredFor(call) ==
    IF call.response.kind = "raise"
    THEN <<"[Error in chunk ", ToString(call.index), "]">>
    ELSE IF call.response.kind = "ok" THEN call.response.text
    ELSE <<"[No summary]">>

\* C7: when the refine call of a run raises, the summaries of that run's
\* map phase are stored unchanged and displayed; and a 'Get Answer' run,
\* whatever its model call does, leaves both keys of session_state as they
\* were and lets no exception out of the script.
C7_FailureKeepsState ==
    /\ [](GenerateDone /\ Last(calls).response.kind = "raise" =>
            /\ "summaries" \in DOMAIN session_state
            /\ Len(session_state["summaries"]) = Len(text_chunks)
            /\ \A k \in 1..Len(text_chunks) :
                  session_state["summaries"][k] = StoredFor(calls[k])
            /\ displayed)
    /\ [][ClickGetAnswer => session_state' = session_state /\ ~uncaught']_vars

C7_Witness ==
    /\ run = "idle"
    /\ Len(calls) = 1
    /\ calls[1].kind = "answer"
    /\ calls[1].response.kind = "raise"
    /\ HasResults(session_state)
    /\ session_state["final_summary"] = <<"[Refinement failed]">>
    /\ displayed

\* C8: once read_pdf_content has reported a PDF reading error in a run,
\* that run neither chunks the text nor calls the model to summarize.
C8_NoWorkAfterPdfError ==
    <<"pdf", 0>> \in st_errors =>
        /\ run = "idle"
        /\ text_chunks = <<>>
        /\ \A k \in 1..Len(calls) : calls[k].kind # "summarize"

\* C9: a run over n chunks calls the model once per chunk, in chunk order,
\* failed or not, and then once to refine, on the n summaries joined in
\* chunk order: n + 1 calls, the refine call last.
C9_OneCallPerChunkThenRefine ==
    /\ (run = "summarizing" =>
          /\ Len(calls) = Len(summaries)
          /\ Len(calls) <= Len(text_chunks)
          /\ \A k \in 1..Len(calls) : calls[k].kind = "summarize")
    /\ \A k \in 1..Len(calls) :
          calls[k].kind = "summarize" =>
              /\ calls[k].index = k
              /\ calls[k].prompt =
                     SummarizePrompt(text_chunks[k], summary_style, language)
    /\ (GenerateDone =>
          LET n == Len(text_chunks)
          IN  /\ Len(calls) = n + 1
              /\ \A k \in 1..n : calls[k].kind = "summarize"
              /\ calls[n + 1].kind = "refine"
              /\ calls[n + 1].prompt =
                     RefinePrompt([k \in 1..n |-> StoredFor(calls[k])], language))

C9_Witness ==
    /\ GenerateDone
    /\ Len(text_chunks) = 3
    /\ Len(calls) = 4
    /\ calls[2].response.kind = "raise"
    /\ calls[3].response.kind = "ok"
    /\ calls[4].kind = "refine"

\* C10: the two keys of session_state are set together, and summaries that
\* are displayed were made from the text of the file uploaded now.
C10_DisplayedFromCurrentDocument ==
    /\ ("summaries" \in DOMAIN session_state
            <=> "final_summary" \in DOMAIN session_state)
    /\ (displayed =>
          /\ uploaded_file # <<>>
          /\ summary_source = Extraction(uploaded_file).text)

====
